---- MODULE Spec2Model ----
(***************************************************************************)
(* A model of the github_rs client (src/src/client.rs, src/src/auth.rs)    *)
(* and of the commit-assembly sequence of src/examples/commit_creation.rs. *)
(*                                                                         *)
(* Two specifications share the definitions that model the client:         *)
(*   SpecCall  one call of a verb method or of a domain method, answered   *)
(*             by an arbitrary transport outcome (no response, or a        *)
(*             response with any status and any body);                     *)
(*   Spec      NumChains commit-assembly sequences run interleaved through *)
(*             one shared client against a service that stores git objects *)
(*             and branch references.                                      *)
(*                                                                         *)
(* Text built with format! is a tuple of its pieces; an Option is <<>>     *)
(* (None) or <<x>> (Some(x)); a SHA is the content-addressed object it     *)
(* names.                                                                  *)
(*                                                                         *)
(* A third specification, SpecAuth, follows the credential: env is the     *)
(* value of GITHUB_TOKEN, level the most verbose level the installed       *)
(* tracing subscriber lets through ("off": none installed), out the lines  *)
(* written so far to the log and to stdout.  There a token is the tuple of *)
(* its characters.                                                         *)
(***************************************************************************)
EXTENDS Naturals, Sequences, FiniteSets

VARIABLES client, refs, objects, branchOf, pc, reqs, ret, call, env, level, out

vars == <<client, refs, objects, branchOf, pc, reqs, ret, call, env, level, out>>

(***************************************************************************)
(* Option and Result                                                       *)
(***************************************************************************)
None == <<>>

Some(x) == <<x>>

Ok(v) == [ok |-> TRUE, val |-> v]

Err(e) == [ok |-> FALSE, err |-> e]

(***************************************************************************)
(* GitHubError (client.rs): the three kinds and status()                   *)
(***************************************************************************)
\* RequestError wraps a reqwest::Error; `st` is that error's Option<status>.
RequestError(st) == [kind |-> "RequestError", status |-> st]

ParseError(msg) == [kind |-> "ParseError", message |-> msg]

ApiError(st, msg) == [kind |-> "ApiError", status |-> st, message |-> msg]

status(e) ==
    CASE e.kind = "RequestError" -> e.status
      [] e.kind = "ApiError" -> Some(e.status)
      [] OTHER -> None

(***************************************************************************)
(* HTTP statuses (reqwest::StatusCode)                                     *)
(***************************************************************************)
is_success(s) == s >= 200 /\ s < 300

is_client_error(s) == s >= 400 /\ s < 500

is_server_error(s) == s >= 500 /\ s < 600

(***************************************************************************)
(* serde_json::Value: strings, numbers, null and objects                   *)
(***************************************************************************)
JNull == [t |-> "null"]

JStr(s) == [t |-> "str", s |-> s]

JNum == [t |-> "num"]

JObj(f) == [t |-> "obj", f |-> f]

\* Value::get(key): Some(field) of an object that has the key, else None.
JGet(v, key) ==
    IF v.t = "obj" /\ key \in DOMAIN v.f THEN Some(v.f[key]) ELSE None

\* value[key]: the field, or Null when the value has no such field.
JIndex(v, key) ==
    IF v.t = "obj" /\ key \in DOMAIN v.f THEN v.f[key] ELSE JNull

\* Value::as_str
as_str(v) == IF v.t = "str" THEN Some(v.s) ELSE None

(***************************************************************************)
(* Transport outcomes: what `send().await` yields                          *)
(***************************************************************************)
NoResponse == [kind |-> "none"]

Response(st, body) == [kind |-> "resp", status |-> st, body |-> body]

Undecodable == [json |-> FALSE]

JsonBody(v) == [json |-> TRUE, val |-> v]

\* Response::json(): the decoded value, or a decode error (a reqwest::Error
\* that carries no status).
json(resp) ==
    IF resp.body.json THEN Ok(resp.body.val) ELSE Err(RequestError(None))

(***************************************************************************)
(* auth.rs                                                                 *)
(***************************************************************************)
build_auth_headers_bearer(token) ==
    [Authorization |-> <<"Bearer ", token>>,
     Accept |-> "application/vnd.github.v3+json"]

build_auth_headers(token) ==
    [Authorization |-> <<"token ", token>>,
     Accept |-> "application/vnd.github.v3+json"]

(***************************************************************************)
(* client.rs, verb layer.  x_request is the request the verb sends,        *)
(* x_result what it returns for the transport's outcome.                   *)
(***************************************************************************)
new(token) == [token |-> token, base_url |-> "https://api.github.com"]

\* Response::error_for_status(): an error carrying the status for a 4xx or
\* 5xx status, the response itself otherwise.
error_for_status_always_ok(resp) == Ok(resp)

error_for_status(resp) ==
    IF is_client_error(resp.status) \/ is_server_error(resp.status)
    THEN Err(RequestError(Some(resp.status)))
    ELSE Ok(resp)

get_request(cl, path) ==
    [verb |-> "GET", url |-> <<cl.base_url>> \o path,
     headers |-> build_auth_headers(cl.token), body |-> None]

get_result(answer) ==
    IF answer.kind = "none" THEN Err(RequestError(None))
    ELSE error_for_status(answer)

post_request(cl, path, body) ==
    [verb |-> "POST", url |-> <<cl.base_url>> \o path,
     headers |-> build_auth_headers(cl.token), body |-> Some(body)]

post_result_checked(answer) == get_result(answer)

post_result(answer) ==
    IF answer.kind = "none" THEN Err(RequestError(None)) ELSE Ok(answer)

patch_request(cl, path, body) ==
    [verb |-> "PATCH", url |-> <<cl.base_url>> \o path,
     headers |-> build_auth_headers(cl.token), body |-> Some(body)]

patch_result(answer) ==
    IF answer.kind = "none" THEN Err(RequestError(None)) ELSE Ok(answer)

(***************************************************************************)
(* client.rs, domain methods.  Each is                                     *)
(*   x_request  the request it makes the verb method send, and             *)
(*   x_result   what it returns for the transport's outcome.               *)
(***************************************************************************)
\* Option::and_then(|v| v.get(key))
and_then_get(opt, key) == IF opt = None THEN None ELSE JGet(opt[1], key)

\* Option::and_then(|v| v.as_str())
and_then_as_str(opt) == IF opt = None THEN None ELSE as_str(opt[1])

\* Option::ok_or_else(|| e)
ok_or_else(opt, e) == IF opt = None THEN Err(e) ELSE Ok(opt[1])

\* Option::unwrap_or(d)
unwrap_or(opt, d) == IF opt = None THEN d ELSE opt[1]

\* The `if !status.is_success()` block every domain method repeats: decode
\* the body (`?`: a decode failure is returned as it is), take `message` as
\* a string or the default, fail with ApiError.
api_error(resp) ==
    LET error_json == json(resp) IN
    IF ~error_json.ok THEN Err(error_json.err)
    ELSE Err(ApiError(resp.status,
             unwrap_or(as_str(JIndex(error_json.val, "message")),
                       "Unknown error")))

get_base_branch_sha_request(cl, owner, repo, base_branch) ==
    get_request(cl, <<"/repos/", owner, "/", repo, "/git/ref/heads/",
                      base_branch>>)

get_base_branch_sha_result(answer) ==
    LET r == get_result(answer) IN
    IF ~r.ok THEN Err(r.err)
    ELSE IF ~is_success(r.val.status) THEN api_error(r.val)
    ELSE LET j == json(r.val) IN
         IF ~j.ok THEN Err(j.err)
         ELSE ok_or_else(
                and_then_as_str(and_then_get(JGet(j.val, "object"), "sha")),
                ParseError("Failed to extract SHA from response"))

create_branch_request(cl, owner, repo, new_branch_name, base_sha) ==
    post_request(cl, <<"/repos/", owner, "/", repo, "/git/refs">>,
                 [ref |-> <<"refs/heads/", new_branch_name>>,
                  sha |-> base_sha])

create_branch_result(answer) ==
    LET r == post_result(answer) IN
    IF ~r.ok THEN Err(r.err)
    ELSE IF ~is_success(r.val.status) THEN api_error(r.val)
    ELSE Ok(<<>>)

get_latest_tree_sha_request(cl, owner, repo, commit_sha) ==
    get_request(cl, <<"/repos/", owner, "/", repo, "/git/commits/",
                      commit_sha>>)

get_latest_tree_sha_result_top_sha(answer) ==
    LET r == get_result(answer) IN
    IF ~r.ok THEN Err(r.err)
    ELSE IF ~is_success(r.val.status) THEN api_error(r.val)
    ELSE LET j == json(r.val) IN
         IF ~j.ok THEN Err(j.err)
         ELSE ok_or_else(
                and_then_as_str(JGet(j.val, "sha")),
                ParseError("Failed to extract tree SHA from response"))

get_latest_tree_sha_result(answer) ==
    LET r == get_result(answer) IN
    IF ~r.ok THEN Err(r.err)
    ELSE IF ~is_success(r.val.status) THEN api_error(r.val)
    ELSE LET j == json(r.val) IN
         IF ~j.ok THEN Err(j.err)
         ELSE ok_or_else(
                and_then_as_str(and_then_get(JGet(j.val, "tree"), "sha")),
                ParseError("Failed to extract tree SHA from response"))

create_blob_request(cl, owner, repo, content) ==
    post_request(cl, <<"/repos/", owner, "/", repo, "/git/blobs">>,
                 [content |-> content, encoding |-> "utf-8"])

create_blob_result(answer) ==
    LET r == post_result(answer) IN
    IF ~r.ok THEN Err(r.err)
    ELSE IF ~is_success(r.val.status) THEN api_error(r.val)
    ELSE LET j == json(r.val) IN
         IF ~j.ok THEN Err(j.err)
         ELSE ok_or_else(
                and_then_as_str(JGet(j.val, "sha")),
                ParseError("Failed to extract blob SHA from response"))

create_tree_request(cl, owner, repo, base_tree, path, blob_sha) ==
    post_request(cl, <<"/repos/", owner, "/", repo, "/git/trees">>,
                 [base_tree |-> base_tree,
                  tree |-> <<[path |-> path, mode |-> "100644",
                              type |-> "blob", sha |-> blob_sha]>>])

create_tree_result(answer) ==
    LET r == post_result(answer) IN
    IF ~r.ok THEN Err(r.err)
    ELSE IF ~is_success(r.val.status) THEN api_error(r.val)
    ELSE LET j == json(r.val) IN
         IF ~j.ok THEN Err(j.err)
         ELSE ok_or_else(
                and_then_as_str(JGet(j.val, "sha")),
                ParseError("Failed to extract tree SHA from response"))

create_commit_request_swapped(cl, owner, repo, message, tree_sha, parent_sha) ==
    post_request(cl, <<"/repos/", owner, "/", repo, "/git/commits">>,
                 [message |-> message, tree |-> parent_sha,
                  parents |-> <<tree_sha>>])

create_commit_request(cl, owner, repo, message, tree_sha, parent_sha) ==
    post_request(cl, <<"/repos/", owner, "/", repo, "/git/commits">>,
                 [message |-> message, tree |-> tree_sha,
                  parents |-> <<parent_sha>>])

create_commit_result(answer) ==
    LET r == post_result(answer) IN
    IF ~r.ok THEN Err(r.err)
    ELSE IF ~is_success(r.val.status) THEN api_error(r.val)
    ELSE LET j == json(r.val) IN
         IF ~j.ok THEN Err(j.err)
         ELSE ok_or_else(
                and_then_as_str(JGet(j.val, "sha")),
                ParseError("Failed to extract commit SHA from response"))

update_branch_reference_request_forced(cl, owner, repo, branch, commit_sha) ==
    patch_request(cl, <<"/repos/", owner, "/", repo, "/git/refs/heads/",
                        branch>>,
                  [sha |-> commit_sha, force |-> TRUE])

update_branch_reference_request(cl, owner, repo, branch, commit_sha) ==
    patch_request(cl, <<"/repos/", owner, "/", repo, "/git/refs/heads/",
                        branch>>,
                  [sha |-> commit_sha, force |-> FALSE])

update_branch_reference_result_inverted(answer) ==
    LET r == patch_result(answer) IN
    IF ~r.ok THEN Err(r.err)
    ELSE IF is_success(r.val.status) THEN api_error(r.val)
    ELSE Ok(<<>>)

update_branch_reference_result(answer) ==
    LET r == patch_result(answer) IN
    IF ~r.ok THEN Err(r.err)
    ELSE IF ~is_success(r.val.status) THEN api_error(r.val)
    ELSE Ok(<<>>)

create_pull_request_request_swapped(cl, owner, repo, base, head, title, body) ==
    post_request(cl, <<"/repos/", owner, "/", repo, "/pulls">>,
                 [title |-> title, body |-> body, base |-> head,
                  head |-> base])

create_pull_request_request(cl, owner, repo, base, head, title, body) ==
    post_request(cl, <<"/repos/", owner, "/", repo, "/pulls">>,
                 [title |-> title, body |-> body, base |-> base,
                  head |-> head])

create_pull_request_result(answer) ==
    LET r == post_result(answer) IN
    IF ~r.ok THEN Err(r.err)
    ELSE IF ~is_success(r.val.status) THEN api_error(r.val)
    ELSE Ok(<<>>)

(***************************************************************************)
(* What the library writes: tracing events and println!.  A line is its    *)
(* level ("stdout" for println!), target, message, the text of its fields  *)
(* (a tuple of characters and literal pieces) and the status it shows (0:  *)
(* none).                                                                  *)
(***************************************************************************)
Line(lvl, target, message, text, st) ==
    [level |-> lvl, target |-> target, message |-> message, text |-> text,
     status |-> st]

\* Whether the subscriber lets an event of level `lvl` through.
enabled(lvl, max) ==
    CASE max = "debug" -> lvl \in {"debug", "info", "warn"}
      [] max = "info" -> lvl \in {"info", "warn"}
      [] OTHER -> FALSE

\* The event, if its level is enabled.
event(lvl, max, target, message, text, st) ==
    IF enabled(lvl, max) THEN {Line(lvl, target, message, text, st)} ELSE {}

\* auth.rs:29, the println! of build_auth_headers.
build_auth_headers_output ==
    {Line("stdout", "", "Debug - Auth header prefix: token", <<>>, 0)}

\* `?headers`: the Debug form of the HeaderMap, its values in full (they
\* are not marked sensitive).
debug_headers(headers) ==
    <<"authorization: ", headers.Authorization[1]>>
      \o headers.Authorization[2] \o <<"accept: ", headers.Accept>>

\* What get writes for the request it sends and the answer it gets.
get_output(req, answer, max) ==
    event("info", max, "github_client", "Making API request", req.url, 0)
    \cup build_auth_headers_output
    \cup event("debug", max, "github_client", "Request headers prepared",
               debug_headers(req.headers), 0)
    \cup (IF answer.kind = "none" THEN {}
          ELSE IF ~is_success(answer.status)
          THEN event("warn", max, "github_client", "Request failed",
                     Tail(req.url), answer.status)
          ELSE event("info", max, "github_client", "Request successful",
                     Tail(req.url), answer.status))

\* post and patch write only what build_auth_headers prints.
post_output(req, answer, max) == build_auth_headers_output

patch_output(req, answer, max) == build_auth_headers_output

(***************************************************************************)
(* The answers a call can get: no response, or a response with one of the  *)
(* statuses and one of the bodies below.  A body is undecodable, a JSON    *)
(* string, or a JSON object over the keys the client reads (message, sha,  *)
(* object.sha, tree.sha) and one key it never reads.                       *)
(***************************************************************************)
Statuses == {200, 201, 304, 404, 422, 500}

Keys == {"message", "sha", "object", "tree", "url"}

\* The object with the fields of `opts` (key -> Option<Value>) that are Some.
MkObject(opts) ==
    JObj([k \in {x \in DOMAIN opts : opts[x] # None} |-> opts[k][1]])

EmptyFields == [k \in {} |-> JNull]

MessageOpts == {None, Some(JStr("Not Found")), Some(JNum)}

ShaOpts == {None, Some(JStr("sha-top")), Some(JNum)}

ObjectOpts ==
    {None, Some(JStr("text")), Some(JObj(EmptyFields)),
     Some(JObj([k \in {"sha"} |-> JNum])),
     Some(JObj([k \in {"sha"} |-> JStr("sha-object")]))}

TreeOpts ==
    {None, Some(JStr("text")), Some(JObj(EmptyFields)),
     Some(JObj([k \in {"sha"} |-> JNum])),
     Some(JObj([k \in {"sha"} |-> JStr("sha-tree")]))}

UrlOpts == {None, Some(JStr("https://example"))}

JsonObjects ==
    { MkObject([k \in Keys |->
                   CASE k = "message" -> m
                     [] k = "sha" -> s
                     [] k = "object" -> o
                     [] k = "tree" -> t
                     [] OTHER -> u]) :
        m \in MessageOpts, s \in ShaOpts, o \in ObjectOpts, t \in TreeOpts,
        u \in UrlOpts }

Bodies ==
    {Undecodable, JsonBody(JStr("text"))} \cup {JsonBody(v) : v \in JsonObjects}

Answers == {NoResponse} \cup {Response(st, b) : st \in Statuses, b \in Bodies}

BranchNames == {"main", "feature-branch"}

(***************************************************************************)
(* SpecCall: one call, from the idle client, of each method.               *)
(***************************************************************************)
Idle == [method |-> "idle"]

\* A call made: its arguments, the request sent, the transport's answer and
\* the value returned.
Called(method, args, req, answer, result) ==
    [method |-> method, args |-> args, req |-> req, answer |-> answer,
     result |-> result]

\* The unit tests' setting: a client made from an explicit token, no tracing
\* subscriber installed.
InitCall ==
    /\ client = new("test_token")
    /\ refs = <<>>
    /\ objects = {}
    /\ branchOf = <<>>
    /\ pc = <<>>
    /\ reqs = <<>>
    /\ ret = <<>>
    /\ call = Idle
    /\ env = None
    /\ level = "off"
    /\ out = {}

Unused ==
    UNCHANGED <<client, refs, objects, branchOf, pc, reqs, ret, env, level>>

Call_get ==
    /\ call = Idle
    /\ \E answer \in Answers :
         LET a == << <<"/user">> >>
             req == get_request(client, a[1])
         IN /\ call' = Called("get", a, req, answer,
                              get_result(answer))
            /\ out' = out \cup get_output(req, answer, level)
    /\ Unused

Call_post ==
    /\ call = Idle
    /\ \E answer \in Answers :
         LET a == << <<"/user/repos">>, [name |-> "r"] >>
             req == post_request(client, a[1], a[2])
         IN /\ call' = Called("post", a, req, answer,
                              post_result(answer))
            /\ out' = out \cup post_output(req, answer, level)
    /\ Unused

Call_patch ==
    /\ call = Idle
    /\ \E answer \in Answers :
         LET a == << <<"/user">>, [bio |-> "b"] >>
             req == patch_request(client, a[1], a[2])
         IN /\ call' = Called("patch", a, req, answer,
                              patch_result(answer))
            /\ out' = out \cup patch_output(req, answer, level)
    /\ Unused

Call_get_user_repos ==
    /\ call = Idle
    /\ \E answer \in Answers :
         LET a == <<>>
             req == get_request(client, <<"/user/repos">>)
         IN /\ call' = Called("get_user_repos", a, req, answer,
                              get_result(answer))
            /\ out' = out \cup get_output(req, answer, level)
    /\ Unused

Call_get_base_branch_sha ==
    /\ call = Idle
    /\ \E answer \in Answers, b \in BranchNames :
         LET a == <<"owner", "repo", b>>
             req == get_base_branch_sha_request(client, a[1], a[2], a[3])
         IN /\ call' = Called("get_base_branch_sha", a, req, answer,
                              get_base_branch_sha_result(answer))
            /\ out' = out \cup get_output(req, answer, level)
    /\ Unused

Call_create_branch ==
    /\ call = Idle
    /\ \E answer \in Answers, b \in BranchNames :
         LET a == <<"owner", "repo", b, "sha-base">>
             req == create_branch_request(client, a[1], a[2], a[3], a[4])
         IN /\ call' = Called("create_branch", a, req, answer,
                              create_branch_result(answer))
            /\ out' = out \cup post_output(req, answer, level)
    /\ Unused

Call_get_latest_tree_sha ==
    /\ call = Idle
    /\ \E answer \in Answers :
         LET a == <<"owner", "repo", "sha-commit">>
             req == get_latest_tree_sha_request(client, a[1], a[2], a[3])
         IN /\ call' = Called("get_latest_tree_sha", a, req, answer,
                              get_latest_tree_sha_result(answer))
            /\ out' = out \cup get_output(req, answer, level)
    /\ Unused

Call_create_blob ==
    /\ call = Idle
    /\ \E answer \in Answers :
         LET a == <<"owner", "repo", "Hello, World!">>
             req == create_blob_request(client, a[1], a[2], a[3])
         IN /\ call' = Called("create_blob", a, req, answer,
                              create_blob_result(answer))
            /\ out' = out \cup post_output(req, answer, level)
    /\ Unused

Call_create_tree ==
    /\ call = Idle
    /\ \E answer \in Answers :
         LET a == <<"owner", "repo", "sha-base-tree", "example/test.txt",
                    "sha-blob">>
             req == create_tree_request(client, a[1], a[2], a[3], a[4], a[5])
         IN /\ call' = Called("create_tree", a, req, answer,
                              create_tree_result(answer))
            /\ out' = out \cup post_output(req, answer, level)
    /\ Unused

Call_create_commit ==
    /\ call = Idle
    /\ \E answer \in Answers :
         LET a == <<"owner", "repo", "Add test.txt", "sha-new-tree",
                    "sha-parent">>
             req == create_commit_request(client, a[1], a[2], a[3], a[4], a[5])
         IN /\ call' = Called("create_commit", a, req, answer,
                              create_commit_result(answer))
            /\ out' = out \cup post_output(req, answer, level)
    /\ Unused

Call_update_branch_reference ==
    /\ call = Idle
    /\ \E answer \in Answers, b \in BranchNames :
         LET a == <<"owner", "repo", b, "sha-commit">>
             req == update_branch_reference_request(client, a[1], a[2], a[3],
                                                    a[4])
         IN /\ call' = Called("update_branch_reference", a, req, answer,
                              update_branch_reference_result(answer))
            /\ out' = out \cup patch_output(req, answer, level)
    /\ Unused

Call_create_pull_request ==
    /\ call = Idle
    /\ \E answer \in Answers, base \in BranchNames, head \in BranchNames :
         LET a == <<"owner", "repo", base, head, "PR title", "PR body">>
             req == create_pull_request_request(client, a[1], a[2], a[3], a[4],
                                                a[5], a[6])
         IN /\ call' = Called("create_pull_request", a, req, answer,
                              create_pull_request_result(answer))
            /\ out' = out \cup post_output(req, answer, level)
    /\ Unused

NextCall ==
    \/ Call_get
    \/ Call_post
    \/ Call_patch
    \/ Call_get_user_repos
    \/ Call_get_base_branch_sha
    \/ Call_create_branch
    \/ Call_get_latest_tree_sha
    \/ Call_create_blob
    \/ Call_create_tree
    \/ Call_create_commit
    \/ Call_update_branch_reference
    \/ Call_create_pull_request

SpecCall == InitCall /\ [][NextCall]_vars

(***************************************************************************)
(* Properties of a single call (SpecCall)                                  *)
(***************************************************************************)
DomainMethods ==
    {"get_base_branch_sha", "create_branch", "get_latest_tree_sha",
     "create_blob", "create_tree", "create_commit",
     "update_branch_reference", "create_pull_request"}

GetMethods == {"get", "get_user_repos"}

\* The call was answered with a response whose status is not 2xx.
AnsweredNonSuccess ==
    /\ call.answer.kind = "resp"
    /\ ~(call.answer.status \in 200..299)

\* The call was answered with a 2xx response.
AnsweredSuccess ==
    /\ call.answer.kind = "resp"
    /\ call.answer.status \in 200..299

\* The JSON value v is an object whose field k is a string.
HasString(v, k) == v.t = "obj" /\ k \in DOMAIN v.f /\ v.f[k].t = "str"

\* The JSON value v is an object whose field k is present.
HasField(v, k) == v.t = "obj" /\ k \in DOMAIN v.f

\* The call failed with an ApiError of this status and message.
FailedWithApiError(st, msg) ==
    /\ ~call.result.ok
    /\ call.result.err.kind = "ApiError"
    /\ call.result.err.status = st
    /\ call.result.err.message = msg

\* C2: every domain method, the GET-based ones included, fails with an
\* ApiError carrying the status and the body's message when the service
\* answers with a non-2xx status.
C2_NonSuccessIsApiError ==
    (/\ call.method \in DomainMethods
     /\ AnsweredNonSuccess
     /\ call.answer.body.json
     /\ HasString(call.answer.body.val, "message"))
    => FailedWithApiError(call.answer.status,
                          call.answer.body.val.f["message"].s)

\* C3: on a non-2xx response a domain method fails with an ApiError of the
\* response's status whose message is the body's `message` when that is a
\* string, and "Unknown error" when the field is absent or the body is not
\* JSON.
C3_ApiErrorMessage ==
    (/\ call.method \in DomainMethods
     /\ AnsweredNonSuccess)
    => /\ (/\ call.answer.body.json
           /\ HasString(call.answer.body.val, "message"))
          => FailedWithApiError(call.answer.status,
                                call.answer.body.val.f["message"].s)
       /\ (/\ call.answer.body.json
           /\ ~HasField(call.answer.body.val, "message"))
          => FailedWithApiError(call.answer.status, "Unknown error")
       /\ ~call.answer.body.json
          => FailedWithApiError(call.answer.status, "Unknown error")

\* The call failed with an error whose status() is Some(st).
FailedWithStatus(st) ==
    /\ ~call.result.ok
    /\ status(call.result.err) = <<st>>

\* The call returned the response it was answered with, untouched.
ReturnedTheResponse ==
    /\ call.result.ok
    /\ call.result.val = call.answer

C5_PostPatchReturnRawResponse ==
    (call.method \in {"post", "patch"})
    => /\ call.answer.kind = "resp" => ReturnedTheResponse
       /\ call.answer.kind = "none" => ~call.result.ok
       /\ ~call.result.ok => call.answer.kind = "none"

C5_Witness ==
    /\ call.method = "patch"
    /\ call.answer.kind = "resp"
    /\ call.answer.status = 422
    /\ call.result.ok
    /\ call.result.val.status = 422

\* The field path each value-returning domain method reads.
FieldPath(method) ==
    CASE method = "get_base_branch_sha" -> <<"object", "sha">>
      [] method = "get_latest_tree_sha" -> <<"tree", "sha">>
      [] OTHER -> <<"sha">>

\* The JSON value v holds a string at the path p (of one or two keys).
StringAtPath(v, p) ==
    IF Len(p) = 1 THEN HasString(v, p[1])
    ELSE HasField(v, p[1]) /\ HasString(v.f[p[1]], p[2])

\* The string the JSON value v holds at the path p.
TheStringAt(v, p) ==
    IF Len(p) = 1 THEN v.f[p[1]].s ELSE v.f[p[1]].f[p[2]].s

ValueMethods ==
    {"get_base_branch_sha", "get_latest_tree_sha", "create_blob",
     "create_tree", "create_commit"}

\* C6: on a 2xx response with a JSON body a value-returning domain method
\* succeeds with exactly the string at its field path when the path holds a
\* string, and fails with a parse error otherwise; the body's other fields
\* do not matter.
C6_ExtractsFieldAtPath ==
    (/\ call.method \in ValueMethods
     /\ AnsweredSuccess
     /\ call.answer.body.json)
    => IF StringAtPath(call.answer.body.val, FieldPath(call.method))
       THEN /\ call.result.ok
            /\ call.result.val =
                 TheStringAt(call.answer.body.val, FieldPath(call.method))
       ELSE /\ ~call.result.ok
            /\ call.result.err.kind = "ParseError"

C6_Witness ==
    /\ call.method = "get_latest_tree_sha"
    /\ AnsweredSuccess
    /\ call.answer.body.json
    /\ HasString(call.answer.body.val, "sha")
    /\ HasString(call.answer.body.val, "message")
    /\ StringAtPath(call.answer.body.val, <<"tree", "sha">>)
    /\ call.result.ok
    /\ call.result.val = "sha-tree"

(***************************************************************************)
(* The remote service, as the client's requests see it: a store of git     *)
(* objects and one reference per branch.  A SHA is the object it names:    *)
(*   <<"c0", b>>, <<"t0", b>>          branch b's first commit and its tree *)
(*   <<"blob", content>>                                                   *)
(*   <<"tree", base_tree, path, blob>>                                     *)
(*   <<"commit", tree, parent, message>>                                   *)
(* A reference moves only to a descendant of its commit unless the update  *)
(* is forced.                                                              *)
(***************************************************************************)
Branches == {"main", "dev"}

InitialCommit(b) == <<"c0", b>>

InitialTree(b) == <<"t0", b>>

IsCommit(o) == o[1] \in {"c0", "commit"}

IsTree(o) == o[1] \in {"t0", "tree"}

IsBlob(o) == o[1] = "blob"

TreeOf(c) == IF c[1] = "c0" THEN InitialTree(c[2]) ELSE c[2]

RECURSIVE IsAncestor(_, _)
IsAncestor(a, x) ==
    \/ x = a
    \/ x[1] = "commit" /\ IsAncestor(a, x[3])

Reject(st, msg) == Response(st, JsonBody(JObj([message |-> JStr(msg)])))

Served(answer, rf, objs) == [answer |-> answer, refs |-> rf, objects |-> objs]

\* GET /repos/{owner}/{repo}/git/ref/heads/{branch}
ServeGetRef(rf, objs, branch) ==
    IF branch \notin DOMAIN rf THEN Served(Reject(404, "Not Found"), rf, objs)
    ELSE Served(Response(200, JsonBody(JObj(
                  [ref |-> JStr(<<"refs/heads/", branch>>),
                   object |-> JObj([sha |-> JStr(rf[branch]),
                                    type |-> JStr("commit")])]))),
                rf, objs)

\* GET /repos/{owner}/{repo}/git/commits/{sha}
ServeGetCommit(rf, objs, sha) ==
    IF sha \notin objs \/ ~IsCommit(sha)
    THEN Served(Reject(404, "Not Found"), rf, objs)
    ELSE Served(Response(200, JsonBody(JObj(
                  [sha |-> JStr(sha),
                   tree |-> JObj([sha |-> JStr(TreeOf(sha))])]))),
                rf, objs)

Created(rf, objs, o) ==
    Served(Response(201, JsonBody(JObj([sha |-> JStr(o)]))), rf,
           objs \cup {o})

\* POST /repos/{owner}/{repo}/git/blobs
ServePostBlob(rf, objs, body) == Created(rf, objs, <<"blob", body.content>>)

\* POST /repos/{owner}/{repo}/git/trees
ServePostTree(rf, objs, body) ==
    IF \/ body.base_tree \notin objs
       \/ ~IsTree(body.base_tree)
       \/ body.tree[1].sha \notin objs
       \/ ~IsBlob(body.tree[1].sha)
    THEN Served(Reject(422, "Invalid tree info"), rf, objs)
    ELSE Created(rf, objs,
                 <<"tree", body.base_tree, body.tree[1].path,
                   body.tree[1].sha>>)

\* POST /repos/{owner}/{repo}/git/commits
ServePostCommit(rf, objs, body) ==
    IF \/ body.tree \notin objs
       \/ ~IsTree(body.tree)
       \/ body.parents[1] \notin objs
       \/ ~IsCommit(body.parents[1])
    THEN Served(Reject(422, "Invalid object"), rf, objs)
    ELSE Created(rf, objs,
                 <<"commit", body.tree, body.parents[1], body.message>>)

\* PATCH /repos/{owner}/{repo}/git/refs/heads/{branch}
ServePatchRef(rf, objs, branch, body) ==
    IF branch \notin DOMAIN rf
    THEN Served(Reject(422, "Reference does not exist"), rf, objs)
    ELSE IF body.sha \notin objs \/ ~IsCommit(body.sha)
    THEN Served(Reject(422, "Object does not exist"), rf, objs)
    ELSE IF ~body.force /\ ~IsAncestor(rf[branch], body.sha)
    THEN Served(Reject(422, "Update is not a fast forward"), rf, objs)
    ELSE Served(Response(200, JsonBody(JObj(
                  [ref |-> JStr(<<"refs/heads/", branch>>),
                   object |-> JObj([sha |-> JStr(body.sha)])]))),
                [rf EXCEPT ![branch] = body.sha], objs)

\* The service's routing of a request by verb and path.
Serve(rf, objs, req) ==
    CASE req.verb = "GET" /\ req.url[6] = "/git/ref/heads/" ->
           ServeGetRef(rf, objs, req.url[7])
      [] req.verb = "GET" /\ req.url[6] = "/git/commits/" ->
           ServeGetCommit(rf, objs, req.url[7])
      [] req.verb = "POST" /\ req.url[6] = "/git/blobs" ->
           ServePostBlob(rf, objs, req.body[1])
      [] req.verb = "POST" /\ req.url[6] = "/git/trees" ->
           ServePostTree(rf, objs, req.body[1])
      [] req.verb = "POST" /\ req.url[6] = "/git/commits" ->
           ServePostCommit(rf, objs, req.body[1])
      [] req.verb = "PATCH" /\ req.url[6] = "/git/refs/heads/" ->
           ServePatchRef(rf, objs, req.url[7], req.body[1])
      [] OTHER -> Served(Reject(404, "Not Found"), rf, objs)

\* What can happen to a request: the service handles it ("ok"), nothing
\* comes back, or a failure answers for the service without touching it.
Outcomes == {"ok", "noresp", "e404", "e500"}

Exchange(rf, objs, req, outcome) ==
    CASE outcome = "ok" -> Serve(rf, objs, req)
      [] outcome = "noresp" -> Served(NoResponse, rf, objs)
      [] outcome = "e404" -> Served(Reject(404, "Not Found"), rf, objs)
      [] OTHER -> Served(Response(500, Undecodable), rf, objs)

(***************************************************************************)
(* Spec: the commit-assembly sequence of examples/commit_creation.rs, run  *)
(* by NumChains call chains that share one client.  pc[c] is the call the  *)
(* chain makes next, ret[c] what its calls returned so far (its locals),   *)
(* reqs[c] the HTTP requests sent on its behalf.                           *)
(***************************************************************************)
NumChains == 2

Chains == 1..NumChains

Owner == "owner"

Repo == "repo"

FilePath == "example/test.txt"

CommitMessage == "Add test.txt"

\* Each chain commits content of its own.
FileContent(c) == <<"Hello, World!", c>>

\* The calls of main, in program order.
Order ==
    <<"get_base_branch_sha", "get_latest_tree_sha", "create_blob",
      "create_tree", "create_commit", "update_branch_reference">>

\* main's locals, once the call that binds them has returned Ok.
base_commit_sha(c) == ret[c][1].val

base_tree_sha(c) == ret[c][2].val

blob_sha(c) == ret[c][3].val

new_tree_sha(c) == ret[c][4].val

new_commit_sha(c) == ret[c][5].val

\* `send().await`: the request goes out once, whatever comes back.
Transmissions_retry(req, answer) ==
    IF answer.kind = "none" THEN <<req, req>> ELSE <<req>>

Transmissions(req, answer) == <<req>>

\* The verb methods take &self: a call leaves the client as it was.
after_request_rebased(cl, req) == [cl EXCEPT !.base_url = req.url[2]]

after_request(cl, req) == cl

\* `?` in main: Ok goes on to the next call, Err returns from main.
question_mark(result, next) == IF result.ok THEN next ELSE "failed"

Tagged(method, https) ==
    [i \in 1..Len(https) |-> [method |-> method, http |-> https[i]]]

\* One call of chain c: the request sent, the service's state after it, the
\* value returned to main and where main goes next.
Returned(c, method, req, x, result, next) ==
    /\ reqs' = [reqs EXCEPT
                  ![c] = @ \o Tagged(method, Transmissions(req, x.answer))]
    /\ ret' = [ret EXCEPT ![c] = Append(@, result)]
    /\ pc' = [pc EXCEPT ![c] = question_mark(result, next)]
    /\ refs' = x.refs
    /\ objects' = x.objects
    /\ client' = after_request(client, req)
    /\ out' = out \cup (IF req.verb = "GET"
                         THEN get_output(req, x.answer, level)
                         ELSE IF req.verb = "POST"
                         THEN post_output(req, x.answer, level)
                         ELSE patch_output(req, x.answer, level))
    /\ UNCHANGED <<branchOf, call, env, level>>

Init ==
    /\ client = new("test_token")
    /\ refs = [b \in Branches |-> InitialCommit(b)]
    /\ objects = {InitialCommit(b) : b \in Branches}
                   \cup {InitialTree(b) : b \in Branches}
    /\ branchOf \in [Chains -> Branches]
    /\ pc = [c \in Chains |-> "get_base_branch_sha"]
    /\ reqs = [c \in Chains |-> <<>>]
    /\ ret = [c \in Chains |-> <<>>]
    /\ call = Idle
    /\ env = Some("test_token")
    /\ level = "off"
    /\ out = {}

\* 1. let base_commit_sha = client.get_base_branch_sha(owner, repo, branch)?
Step_get_base_branch_sha(c) ==
    /\ pc[c] = "get_base_branch_sha"
    /\ \E outcome \in Outcomes :
         LET req == get_base_branch_sha_request(client, Owner, Repo,
                                                branchOf[c])
             x == Exchange(refs, objects, req, outcome)
         IN Returned(c, "get_base_branch_sha", req, x,
                     get_base_branch_sha_result(x.answer),
                     "get_latest_tree_sha")

\* 2. let base_tree_sha = client.get_latest_tree_sha(.., &base_commit_sha)?
Step_get_latest_tree_sha(c) ==
    /\ pc[c] = "get_latest_tree_sha"
    /\ \E outcome \in Outcomes :
         LET req == get_latest_tree_sha_request(client, Owner, Repo,
                                                base_commit_sha(c))
             x == Exchange(refs, objects, req, outcome)
         IN Returned(c, "get_latest_tree_sha", req, x,
                     get_latest_tree_sha_result(x.answer), "create_blob")

\* 3. let blob_sha = client.create_blob(owner, repo, file_content)?
Step_create_blob(c) ==
    /\ pc[c] = "create_blob"
    /\ \E outcome \in Outcomes :
         LET req == create_blob_request(client, Owner, Repo, FileContent(c))
             x == Exchange(refs, objects, req, outcome)
         IN Returned(c, "create_blob", req, x,
                     create_blob_result(x.answer), "create_tree")

\* 4. let new_tree_sha = client.create_tree(.., &base_tree_sha, file_path,
\*                                          &blob_sha)?
Step_create_tree(c) ==
    /\ pc[c] = "create_tree"
    /\ \E outcome \in Outcomes :
         LET req == create_tree_request(client, Owner, Repo, base_tree_sha(c),
                                        FilePath, blob_sha(c))
             x == Exchange(refs, objects, req, outcome)
         IN Returned(c, "create_tree", req, x,
                     create_tree_result(x.answer), "create_commit")

\* 5. let new_commit_sha = client.create_commit(.., commit_message,
\*                                    &new_tree_sha, &base_commit_sha)?
Step_create_commit(c) ==
    /\ pc[c] = "create_commit"
    /\ \E outcome \in Outcomes :
         LET req == create_commit_request(client, Owner, Repo, CommitMessage,
                                          new_tree_sha(c), base_commit_sha(c))
             x == Exchange(refs, objects, req, outcome)
         IN Returned(c, "create_commit", req, x,
                     create_commit_result(x.answer),
                     "update_branch_reference")

\* 6. client.update_branch_reference(owner, repo, branch, &new_commit_sha)?
Step_update_branch_reference(c) ==
    /\ pc[c] = "update_branch_reference"
    /\ \E outcome \in Outcomes :
         LET req == update_branch_reference_request(client, Owner, Repo,
                                                    branchOf[c],
                                                    new_commit_sha(c))
             x == Exchange(refs, objects, req, outcome)
         IN Returned(c, "update_branch_reference", req, x,
                     update_branch_reference_result(x.answer), "done")

Next ==
    \E c \in Chains :
        \/ Step_get_base_branch_sha(c)
        \/ Step_get_latest_tree_sha(c)
        \/ Step_create_blob(c)
        \/ Step_create_tree(c)
        \/ Step_create_commit(c)
        \/ Step_update_branch_reference(c)

Spec == Init /\ [][Next]_vars

(***************************************************************************)
(* Properties of the commit-assembly sequence (Spec)                       *)
(***************************************************************************)
\* Call i of chain c has returned Ok.
ReturnedOk(c, i) == i <= Len(ret[c]) /\ ret[c][i].ok

\* The JSON body of the i-th request sent for chain c.
BodyOf(c, i) == reqs[c][i].http.body[1]

\* C1: the six calls go out in the order get_base_branch_sha,
\* get_latest_tree_sha, create_blob, create_tree, create_commit,
\* update_branch_reference, and each request carries the values the earlier
\* calls returned, in the documented places.
C1_OrderAndDataFlow ==
    \A c \in Chains :
        LET n == Len(reqs[c]) IN
        /\ n <= Len(Order)
        /\ \A i \in 1..n : reqs[c][i].method = Order[i]
        /\ \A i \in 2..n : ReturnedOk(c, i - 1)
        /\ n >= 2 => reqs[c][2].http.url[7] = ret[c][1].val
        /\ n >= 4 => /\ BodyOf(c, 4).base_tree = ret[c][2].val
                     /\ Len(BodyOf(c, 4).tree) = 1
                     /\ BodyOf(c, 4).tree[1].sha = ret[c][3].val
        /\ n >= 5 => /\ BodyOf(c, 5).tree = ret[c][4].val
                     /\ BodyOf(c, 5).parents = <<ret[c][1].val>>
        /\ n >= 6 => BodyOf(c, 6).sha = ret[c][5].val

C1_Witness ==
    \E c \in Chains :
        /\ pc[c] = "done"
        /\ Len(reqs[c]) = 6
        /\ BodyOf(c, 6).sha = ret[c][5].val
        /\ BodyOf(c, 5).parents = <<InitialCommit(branchOf[c])>>

\* C7, in every state: what a failed sequence created is still in the
\* service, and no branch points at its commit.
C7_FailedLeavesOrphans ==
    \A c \in Chains :
        pc[c] = "failed" =>
            /\ \A i \in 3..5 : ReturnedOk(c, i) => ret[c][i].val \in objects
            /\ ReturnedOk(c, 5) => \A b \in Branches : refs[b] # ret[c][5].val

\* C7, in every step: no object is ever removed, a step that ends a
\* sequence in failure leaves every branch where it was, and a branch moves
\* only in the step in which update_branch_reference returns Ok.
C7_StepFrame ==
    /\ objects \subseteq objects'
    /\ \A c \in Chains :
         (pc[c] # "failed" /\ pc'[c] = "failed") => refs' = refs
    /\ refs' # refs =>
         \E c \in Chains :
             /\ pc[c] = "update_branch_reference"
             /\ pc'[c] = "done"
             /\ refs' = [refs EXCEPT ![branchOf[c]] = ret[c][5].val]

SameBase(c, d) ==
    /\ c # d
    /\ branchOf[c] = branchOf[d]
    /\ ReturnedOk(c, 1)
    /\ ReturnedOk(d, 1)
    /\ ret[c][1].val = ret[d][1].val

\* C8, in every state: of two sequences that read the same base commit of
\* one branch, once one has updated the branch the other's update fails.
C8_SecondUpdateFails ==
    \A c \in Chains, d \in Chains :
        (SameBase(c, d) /\ pc[c] = "done" /\ Len(ret[d]) = 6)
        => pc[d] = "failed" /\ ~ret[d][6].ok

\* C8, in every step: a branch moves only to a commit whose parent is the
\* commit it pointed at.
C8_StepFastForward ==
    \A b \in Branches :
        refs'[b] # refs[b] =>
            /\ refs'[b][1] = "commit"
            /\ refs'[b][3] = refs[b]

Alone(c) == \A d \in Chains : d # c => branchOf[d] # branchOf[c]

ExpectedBlob(c) == <<"blob", FileContent(c)>>

ExpectedTree(c) ==
    <<"tree", InitialTree(branchOf[c]), FilePath, ExpectedBlob(c)>>

ExpectedCommit(c) ==
    <<"commit", ExpectedTree(c), InitialCommit(branchOf[c]), CommitMessage>>

\* What call i of chain c returns when the chain runs with no other.
Sequentially(c, i) ==
    CASE i = 1 -> InitialCommit(branchOf[c])
      [] i = 2 -> InitialTree(branchOf[c])
      [] i = 3 -> ExpectedBlob(c)
      [] i = 4 -> ExpectedTree(c)
      [] i = 5 -> ExpectedCommit(c)
      [] OTHER -> <<>>

\* C9: the shared client's token and base URL never change, and a sequence
\* that has its branch to itself gets, in every interleaving, the SHAs it
\* would get running alone, and leaves its branch at the commit it would
\* leave it at running alone.
C9_SharedClientIsSafe ==
    /\ client.token = "test_token"
    /\ client.base_url = "https://api.github.com"
    /\ \A c \in Chains :
         Alone(c) =>
            /\ \A i \in 1..Len(ret[c]) :
                 ret[c][i].ok => ret[c][i].val = Sequentially(c, i)
            /\ refs[branchOf[c]] =
                 IF pc[c] = "done" THEN ExpectedCommit(c)
                 ELSE InitialCommit(branchOf[c])

C9_Witness ==
    /\ branchOf[1] # branchOf[2]
    /\ pc[1] = "done"
    /\ pc[2] = "done"
    /\ refs[branchOf[1]] = ExpectedCommit(1)
    /\ refs[branchOf[2]] = ExpectedCommit(2)

\* C10: every call sends exactly one request, whether it succeeds or fails,
\* and the first failing call ends the sequence: no call before the last
\* one failed, and nothing is sent after a failure.
C10_OneRequestPerCallNoRetry ==
    \A c \in Chains :
        /\ Len(reqs[c]) = Len(ret[c])
        /\ \A i \in 1..Len(ret[c]) : ~ret[c][i].ok => i = Len(ret[c])
        /\ pc[c] = "failed" <=> (Len(ret[c]) > 0 /\ ~ret[c][Len(ret[c])].ok)

C10_Witness ==
    \E c \in Chains :
        /\ pc[c] = "failed"
        /\ Len(ret[c]) = 3
        /\ ~ret[c][3].ok
        /\ Len(reqs[c]) = 3

(***************************************************************************)
(* The requests of the domain methods (SpecCall)                           *)
(***************************************************************************)
\* The URL of the path /repos/{owner}/{repo} followed by `rest`.
RepoUrl(owner, repo, rest) ==
    <<client.base_url, "/repos/", owner, "/", repo>> \o rest

\* The verb, URL and JSON body (<<>>: none) the documented table gives the
\* call of `method` with the arguments a.
Documented(method, a) ==
    CASE method = "get_base_branch_sha" ->
           [verb |-> "GET",
            url |-> RepoUrl(a[1], a[2], <<"/git/ref/heads/", a[3]>>),
            body |-> <<>>]
      [] method = "create_branch" ->
           [verb |-> "POST",
            url |-> RepoUrl(a[1], a[2], <<"/git/refs">>),
            body |-> <<[ref |-> <<"refs/heads/", a[3]>>, sha |-> a[4]]>>]
      [] method = "get_latest_tree_sha" ->
           [verb |-> "GET",
            url |-> RepoUrl(a[1], a[2], <<"/git/commits/", a[3]>>),
            body |-> <<>>]
      [] method = "create_blob" ->
           [verb |-> "POST",
            url |-> RepoUrl(a[1], a[2], <<"/git/blobs">>),
            body |-> <<[content |-> a[3], encoding |-> "utf-8"]>>]
      [] method = "create_tree" ->
           [verb |-> "POST",
            url |-> RepoUrl(a[1], a[2], <<"/git/trees">>),
            body |-> <<[base_tree |-> a[3],
                        tree |-> <<[path |-> a[4], mode |-> "100644",
                                    type |-> "blob", sha |-> a[5]]>>]>>]
      [] method = "create_commit" ->
           [verb |-> "POST",
            url |-> RepoUrl(a[1], a[2], <<"/git/commits">>),
            body |-> <<[message |-> a[3], tree |-> a[4],
                        parents |-> <<a[5]>>]>>]
      [] method = "update_branch_reference" ->
           [verb |-> "PATCH",
            url |-> RepoUrl(a[1], a[2], <<"/git/refs/heads/", a[3]>>),
            body |-> <<[sha |-> a[4], force |-> FALSE]>>]
      [] OTHER ->
           [verb |-> "POST",
            url |-> RepoUrl(a[1], a[2], <<"/pulls">>),
            body |-> <<[title |-> a[5], body |-> a[6], base |-> a[3],
                        head |-> a[4]]>>]

\* C15: each domain method sends the verb, the path and the JSON body of
\* the documented table, every argument in the field of its role (base and
\* head of create_pull_request not swapped), and create_branch and
\* create_pull_request return success with no value on a 2xx answer.
C15_RequestsFollowTable ==
    (call.method \in DomainMethods)
    => /\ call.req.verb = Documented(call.method, call.args).verb
       /\ call.req.url = Documented(call.method, call.args).url
       /\ call.req.body = Documented(call.method, call.args).body
       /\ (/\ call.method \in {"create_branch", "create_pull_request"}
           /\ AnsweredSuccess)
          => call.result = Ok(<<>>)

C15_Witness ==
    /\ call.method = "create_pull_request"
    /\ call.args[3] = "main"
    /\ call.args[4] = "feature-branch"
    /\ call.req.body[1].base = "main"
    /\ call.req.body[1].head = "feature-branch"
    /\ call.answer.kind = "resp"
    /\ call.answer.status = 201
    /\ call.result = Ok(<<>>)

(***************************************************************************)
(* The status an error carries (SpecCall)                                  *)
(***************************************************************************)
\* C14: a domain method that fails after an answer with a non-2xx status s
\* returns an error whose status() is s, whatever its kind and whatever
\* the body of the answer was; status() is empty only for a parse error (a
\* ParseError, or a 2xx body that is not JSON) or when no response was
\* obtained.
C14_ErrorCarriesStatus ==
    (/\ call.method \in DomainMethods
     /\ ~call.result.ok)
    => /\ AnsweredNonSuccess => FailedWithStatus(call.answer.status)
       /\ (status(call.result.err) = None)
          => \/ call.result.err.kind = "ParseError"
             \/ AnsweredSuccess /\ ~call.answer.body.json
             \/ call.answer.kind = "none"

(***************************************************************************)
(* SpecAuth: the credential from the environment to the requests.  A       *)
(* program reads GITHUB_TOKEN with from_env, makes a client of the token   *)
(* and calls the client, with or without a tracing subscriber installed.   *)
(***************************************************************************)
\* The characters tokens are made of, and the longest token considered.
TokenChars ==
    <<"g", "h", "p", "_", "A", "b", "C", "d", "E", "f", "G", "i", "J", "k",
      "L", "m">>

MaxTokenLen == 11

\* The most requests a program sends.
MaxCalls == 2

\* auth.rs:17, the length of the token prefix the debug event shows.
PrefixLen == 10

Tokens == {SubSeq(TokenChars, 1, n) : n \in 0..MaxTokenLen}

\* GITHUB_TOKEN after dotenv(): unset, or set to a token.
EnvValues == {None} \cup {Some(t) : t \in Tokens}

\* No subscriber installed, or one that lets info or debug events through.
LogLevels == {"off", "info", "debug"}

\* std::env::VarError::NotPresent
NotPresent == [kind |-> "NotPresent"]

\* `&token[..10]` panics when the token is shorter than 10 bytes; the field
\* is evaluated only if the debug event is enabled.
from_env_panics(e, max) ==
    /\ e # None
    /\ enabled("debug", max)
    /\ Len(e[1]) < PrefixLen

\* The value from_env returns when it returns.
from_env_result(e) == IF e = None THEN Err(NotPresent) ELSE Ok(e[1])

\* What from_env writes.
from_env_output(e, max) ==
    event("info", max, "auth", "Loading GitHub token from environment",
          <<>>, 0)
    \cup (IF e = None \/ from_env_panics(e, max) THEN {}
          ELSE event("debug", max, "auth", "Token loaded successfully",
                     <<"token_prefix=">> \o SubSeq(e[1], 1, PrefixLen), 0))

\* The client variable before GitHubClient::new has run.
NoClient == [token |-> <<>>, base_url |-> ""]

\* The answers considered for a request of SpecAuth.
AuthAnswers ==
    {NoResponse, Response(200, Undecodable), Response(404, Undecodable)}

InitAuth ==
    /\ env \in EnvValues
    /\ level \in LogLevels
    /\ out = {}
    /\ pc = "start"
    /\ ret = None
    /\ client = NoClient
    /\ call = Idle
    /\ reqs = <<>>
    /\ refs = <<>>
    /\ objects = {}
    /\ branchOf = <<>>

\* let auth_token = AuthToken::from_env()?
Auth_from_env ==
    /\ pc = "start"
    /\ out' = out \cup from_env_output(env, level)
    /\ IF from_env_panics(env, level)
       THEN /\ pc' = "panicked"
            /\ ret' = ret
       ELSE /\ pc' = IF from_env_result(env).ok THEN "loaded" ELSE "failed"
            /\ ret' = Some(from_env_result(env))
    /\ UNCHANGED <<client, refs, objects, branchOf, reqs, call, env, level>>

\* let client = GitHubClient::new(auth_token.as_str().to_string())
Auth_new ==
    /\ pc = "loaded"
    /\ client' = new(ret[1].val)
    /\ pc' = "ready"
    /\ UNCHANGED <<refs, objects, branchOf, reqs, ret, call, env, level, out>>

\* build_auth_headers called directly with the token loaded.
Auth_build_auth_headers ==
    /\ pc \in {"loaded", "ready"}
    /\ call' = [method |-> "build_auth_headers", args |-> <<ret[1].val>>,
                result |-> build_auth_headers(ret[1].val)]
    /\ out' = out \cup build_auth_headers_output
    /\ UNCHANGED <<client, refs, objects, branchOf, pc, reqs, ret, env, level>>

\* The client exists and the program has requests left to send.
Sendable ==
    /\ pc = "ready"
    /\ Len(reqs) < MaxCalls

UnusedAuth == UNCHANGED <<client, refs, objects, branchOf, pc, ret, env, level>>

Auth_get ==
    /\ Sendable
    /\ \E answer \in AuthAnswers :
         LET a == << <<"/user">> >>
             req == get_request(client, a[1])
         IN /\ call' = Called("get", a, req, answer,
                              get_result(answer))
            /\ out' = out \cup get_output(req, answer, level)
            /\ reqs' = Append(reqs, req)
    /\ UnusedAuth

Auth_post ==
    /\ Sendable
    /\ \E answer \in AuthAnswers :
         LET a == << <<"/user/repos">>, [name |-> "r"] >>
             req == post_request(client, a[1], a[2])
         IN /\ call' = Called("post", a, req, answer,
                              post_result(answer))
            /\ out' = out \cup post_output(req, answer, level)
            /\ reqs' = Append(reqs, req)
    /\ UnusedAuth

Auth_patch ==
    /\ Sendable
    /\ \E answer \in AuthAnswers :
         LET a == << <<"/user">>, [bio |-> "b"] >>
             req == patch_request(client, a[1], a[2])
         IN /\ call' = Called("patch", a, req, answer,
                              patch_result(answer))
            /\ out' = out \cup patch_output(req, answer, level)
            /\ reqs' = Append(reqs, req)
    /\ UnusedAuth

Auth_get_user_repos ==
    /\ Sendable
    /\ \E answer \in AuthAnswers :
         LET a == <<>>
             req == get_request(client, <<"/user/repos">>)
         IN /\ call' = Called("get_user_repos", a, req, answer,
                              get_result(answer))
            /\ out' = out \cup get_output(req, answer, level)
            /\ reqs' = Append(reqs, req)
    /\ UnusedAuth

Auth_get_base_branch_sha ==
    /\ Sendable
    /\ \E answer \in AuthAnswers, b \in BranchNames :
         LET a == <<"owner", "repo", b>>
             req == get_base_branch_sha_request(client, a[1], a[2], a[3])
         IN /\ call' = Called("get_base_branch_sha", a, req, answer,
                              get_base_branch_sha_result(answer))
            /\ out' = out \cup get_output(req, answer, level)
            /\ reqs' = Append(reqs, req)
    /\ UnusedAuth

Auth_create_branch ==
    /\ Sendable
    /\ \E answer \in AuthAnswers, b \in BranchNames :
         LET a == <<"owner", "repo", b, "sha-base">>
             req == create_branch_request(client, a[1], a[2], a[3], a[4])
         IN /\ call' = Called("create_branch", a, req, answer,
                              create_branch_result(answer))
            /\ out' = out \cup post_output(req, answer, level)
            /\ reqs' = Append(reqs, req)
    /\ UnusedAuth

Auth_get_latest_tree_sha ==
    /\ Sendable
    /\ \E answer \in AuthAnswers :
         LET a == <<"owner", "repo", "sha-commit">>
             req == get_latest_tree_sha_request(client, a[1], a[2], a[3])
         IN /\ call' = Called("get_latest_tree_sha", a, req, answer,
                              get_latest_tree_sha_result(answer))
            /\ out' = out \cup get_output(req, answer, level)
            /\ reqs' = Append(reqs, req)
    /\ UnusedAuth

Auth_create_blob ==
    /\ Sendable
    /\ \E answer \in AuthAnswers :
         LET a == <<"owner", "repo", "Hello, World!">>
             req == create_blob_request(client, a[1], a[2], a[3])
         IN /\ call' = Called("create_blob", a, req, answer,
                              create_blob_result(answer))
            /\ out' = out \cup post_output(req, answer, level)
            /\ reqs' = Append(reqs, req)
    /\ UnusedAuth

Auth_create_tree ==
    /\ Sendable
    /\ \E answer \in AuthAnswers :
         LET a == <<"owner", "repo", "sha-base-tree", "example/test.txt",
                    "sha-blob">>
             req == create_tree_request(client, a[1], a[2], a[3], a[4], a[5])
         IN /\ call' = Called("create_tree", a, req, answer,
                              create_tree_result(answer))
            /\ out' = out \cup post_output(req, answer, level)
            /\ reqs' = Append(reqs, req)
    /\ UnusedAuth

Auth_create_commit ==
    /\ Sendable
    /\ \E answer \in AuthAnswers :
         LET a == <<"owner", "repo", "Add test.txt", "sha-new-tree",
                    "sha-parent">>
             req == create_commit_request(client, a[1], a[2], a[3], a[4], a[5])
         IN /\ call' = Called("create_commit", a, req, answer,
                              create_commit_result(answer))
            /\ out' = out \cup post_output(req, answer, level)
            /\ reqs' = Append(reqs, req)
    /\ UnusedAuth

Auth_update_branch_reference ==
    /\ Sendable
    /\ \E answer \in AuthAnswers, b \in BranchNames :
         LET a == <<"owner", "repo", b, "sha-commit">>
             req == update_branch_reference_request(client, a[1], a[2], a[3],
                                                    a[4])
         IN /\ call' = Called("update_branch_reference", a, req, answer,
                              update_branch_reference_result(answer))
            /\ out' = out \cup patch_output(req, answer, level)
            /\ reqs' = Append(reqs, req)
    /\ UnusedAuth

Auth_create_pull_request ==
    /\ Sendable
    /\ \E answer \in AuthAnswers, base \in BranchNames, head \in BranchNames :
         LET a == <<"owner", "repo", base, head, "PR title", "PR body">>
             req == create_pull_request_request(client, a[1], a[2], a[3], a[4],
                                                a[5], a[6])
         IN /\ call' = Called("create_pull_request", a, req, answer,
                              create_pull_request_result(answer))
            /\ out' = out \cup post_output(req, answer, level)
            /\ reqs' = Append(reqs, req)
    /\ UnusedAuth

NextAuth ==
    \/ Auth_from_env
    \/ Auth_new
    \/ Auth_build_auth_headers
    \/ Auth_get
    \/ Auth_post
    \/ Auth_patch
    \/ Auth_get_user_repos
    \/ Auth_get_base_branch_sha
    \/ Auth_create_branch
    \/ Auth_get_latest_tree_sha
    \/ Auth_create_blob
    \/ Auth_create_tree
    \/ Auth_create_commit
    \/ Auth_update_branch_reference
    \/ Auth_create_pull_request

SpecAuth == InitAuth /\ [][NextAuth]_vars

(***************************************************************************)
(* The credential: loading, headers, output (SpecAuth)                     *)
(***************************************************************************)
\* The methods that send a request.
RequestMethods == DomainMethods \cup GetMethods \cup {"post", "patch"}

\* C13: build_auth_headers(t) returns exactly two entries, Authorization
\* equal to "token " followed by t and Accept equal to
\* "application/vnd.github.v3+json", and every GET, POST and PATCH request
\* the client sends carries these two headers for the client's token.
C13_HeadersExact ==
    /\ (call.method = "build_auth_headers")
       => /\ DOMAIN call.result = {"Authorization", "Accept"}
          /\ call.result.Authorization = <<"token ", call.args[1]>>
          /\ call.result.Accept = "application/vnd.github.v3+json"
    /\ (call.method \in RequestMethods)
       => /\ call.req.verb \in {"GET", "POST", "PATCH"}
          /\ DOMAIN call.req.headers = {"Authorization", "Accept"}
          /\ call.req.headers.Authorization = <<"token ", env[1]>>
          /\ call.req.headers.Accept = "application/vnd.github.v3+json"

C13_Witness ==
    /\ call.method = "update_branch_reference"
    /\ call.req.verb = "PATCH"
    /\ Len(env[1]) > PrefixLen
    /\ call.req.headers.Authorization[2] = env[1]

\* C12: from_env fails with the variable-missing error when GITHUB_TOKEN is
\* unset, and when it is set, to a value of any length, from_env succeeds
\* and returns exactly that value.
C12_FromEnvExactValue ==
    (pc # "start")
    => IF env = None
       THEN pc = "failed" /\ ret = Some(Err(NotPresent))
       ELSE pc \in {"loaded", "ready"} /\ ret = Some(Ok(env[1]))

\* The text holds the whole token (a token of at least one character).
Contains(text, token) ==
    /\ Len(token) > 0
    /\ \E i \in 1..Len(text) : SubSeq(text, i, i + Len(token) - 1) = token

\* C11: whatever the token and whatever the operations run, no line the
\* library writes to the log or to stdout holds the complete token.
C11_TokenNeverWritten ==
    \A l \in out : env # None => ~Contains(l.text, env[1])

====
